---- MODULE Spec2Model ----
(***************************************************************************)
(* Model of lottery_hot_numbers_firestore.py: the draw extraction and      *)
(* normalisation pipeline, the recency filter and frequency counter, the   *)
(* paginated LotteryGuru extractor and the per-source run loop.            *)
(*                                                                         *)
(* Calendar dates are triples <<year, month, day>>.  An ISO date string    *)
(* (date.isoformat()) is the sequence of its ten characters.  A candidate  *)
(* ball value handed to the normaliser is a record [int, v]: int says      *)
(* whether the Python object is an int, v is its value.                    *)
(***************************************************************************)
EXTENDS Integers, Sequences, FiniteSets, TLC

\* ------------------------------------------------------------------------
\* Bounds of the model
\* ------------------------------------------------------------------------
MaxCand == 2
MaxDraws == 2
MaxFaulty == 1
MaxBlocks == 2
MaxContentPages == 2
MaxNodes == 2
MaxRows == 2
MaxField == 13

\* ------------------------------------------------------------------------
\* Generic sequence helpers
\* ------------------------------------------------------------------------
SeqsUpTo(S, n) == UNION {[1..k -> S] : k \in 0..n}

Range(s) == {s[i] : i \in 1..Len(s)}

Min2(a, b) == IF a < b THEN a ELSE b

\* Python slice s[lo:hi] for 0 <= lo, 0 <= hi (0-based, hi exclusive)
Slice(s, lo, hi) ==
    LET h == Min2(hi, Len(s))
    IN  IF lo >= h THEN <<>> ELSE SubSeq(s, lo + 1, h)

\* Python slice s[-n:] (the last n elements, all of s if it is shorter)
LastN(s, n) == IF Len(s) <= n THEN s ELSE SubSeq(s, Len(s) - n + 1, Len(s))

\* ------------------------------------------------------------------------
\* Static tables
\* ------------------------------------------------------------------------
NoneId == "<None>"

\* the day of the run
Today == <<2025, 3, 1>>

GAME_SPECS_KEYS ==
    << "australia_powerball", "powerball", "megamillions", "euromillions",
       "lotto", "thunderball", "set-for-life", "powerball_au",
       "spain_loterias", "south_africa_lotto", "ghana_fortune_thursday",
       "ghanafortunethursday", "gh-fortune-thursday" >>

GAME_SPECS ==
    [k \in Range(GAME_SPECS_KEYS) |->
       CASE k = "australia_powerball"    -> [main |-> 7, bonus |-> 1]
         [] k = "powerball"              -> [main |-> 5, bonus |-> 1]
         [] k = "megamillions"           -> [main |-> 5, bonus |-> 1]
         [] k = "euromillions"           -> [main |-> 5, bonus |-> 2]
         [] k = "lotto"                  -> [main |-> 6, bonus |-> 0]
         [] k = "thunderball"            -> [main |-> 5, bonus |-> 1]
         [] k = "set-for-life"           -> [main |-> 5, bonus |-> 1]
         [] k = "powerball_au"           -> [main |-> 7, bonus |-> 1]
         [] k = "spain_loterias"         -> [main |-> 6, bonus |-> 2]
         [] k = "south_africa_lotto"     -> [main |-> 6, bonus |-> 1]
         [] k = "ghana_fortune_thursday" -> [main |-> 5, bonus |-> 0]
         [] k = "ghanafortunethursday"   -> [main |-> 5, bonus |-> 0]
         [] k = "gh-fortune-thursday"    -> [main |-> 5, bonus |-> 0]]

GAME_RANGES ==
    [k \in {"australia_powerball", "powerball", "megamillions", "spain_loterias"} |->
       CASE k = "australia_powerball" -> [main_max |-> 35, bonus_max |-> 20]
         [] k = "powerball"           -> [main_max |-> 69, bonus_max |-> 26]
         [] k = "megamillions"        -> [main_max |-> 70, bonus_max |-> 25]
         [] k = "spain_loterias"      -> [main_max |-> 49, bonus_max |-> 9]]

HasRange(page_id) == page_id \in DOMAIN GAME_RANGES

HOT_TOP_N ==
    [k \in {"australia_powerball"} |-> [top_main |-> 10, top_bonus |-> 10]]

\* A URL is its path segments and the pieces of its query string (none:
\* the URL has no "?").  NoUrl is the csv_url None.
Url(path, query) == [path |-> path, query |-> query]
NoUrl == Url(<<>>, <<>>)

NL(game) == <<"www.national-lottery.co.uk", "results", game, "draw-history">>
Texas(game, file) ==
    <<"www.texaslottery.com", "export", "sites", "lottery", "Games", game,
      "Winning_Numbers", file>>
SheetPath == <<"docs.google.com", "spreadsheets", "d", "e", "2PACX-1vTov1", "pub">>

LOTTERIES_KEYS ==
    << "euromillions", "lotto", "thunderball", "set-for-life", "megamillions",
       "powerball", "euromillions-hotpicks", "lotto-hotpicks",
       "spain_loterias_sheet", "south_africa_lotto", "ghana_fortune_thursday",
       "australia_powerball" >>

LOTTERIES ==
    [k \in Range(LOTTERIES_KEYS) |->
       CASE k \in {"euromillions", "lotto", "thunderball", "set-for-life"} ->
              [html_url |-> Url(NL(k), <<>>),
               csv_url |-> Url(NL(k) \o <<"csv">>, <<>>), page_id |-> k]
         [] k = "megamillions" ->
              [html_url |-> Url(<<"www.megamillions.com", "winning-numbers",
                                  "previous-drawings.aspx">>, <<>>),
               csv_url |-> Url(Texas("Mega_Millions", "megamillions.csv"), <<>>),
               page_id |-> k]
         [] k = "powerball" ->
              [html_url |-> Url(<<"www.powerball.com", "previous-results">>, <<>>),
               csv_url |-> Url(Texas("Powerball", "powerball.csv"), <<>>),
               page_id |-> k]
         [] k \in {"euromillions-hotpicks", "lotto-hotpicks"} ->
              [html_url |-> Url(NL(k), <<>>), csv_url |-> NoUrl, page_id |-> k]
         [] k = "spain_loterias_sheet" ->
              [html_url |-> Url(SheetPath, <<"gid=1">>),
               csv_url |-> Url(SheetPath, <<"gid=1&single=true&output=csv">>),
               page_id |-> "spain_loterias"]
         [] k = "south_africa_lotto" ->
              [html_url |-> Url(<<"www.africanlottery.net", "lotto-results">>, <<>>),
               csv_url |-> Url(<<"www.africanlottery.net", "download",
                                 "sa_lotto.csv">>, <<>>),
               page_id |-> "sa_lotto"]
         [] k = "ghana_fortune_thursday" ->
              [html_url |-> Url(<<"lotteryguru.com", "ghana-lottery-results",
                                  "gh-fortune-thursday",
                                  "gh-fortune-thursday-results-history">>, <<>>),
               csv_url |-> NoUrl, page_id |-> k]
         [] k = "australia_powerball" ->
              [html_url |-> Url(<<"www.lotterywest.wa.gov.au", "games",
                                  "powerball">>, <<>>),
               csv_url |-> Url(<<"api.lotterywest.wa.gov.au", "api", "v1", "games",
                                 "5132", "results-csv">>, <<>>),
               page_id |-> k]]

\* ------------------------------------------------------------------------
\* Calendar (datetime.date)
\* ------------------------------------------------------------------------
IsLeap(y) == (y % 4 = 0) /\ ((y % 100 # 0) \/ (y % 400 = 0))

DaysInMonth(y, m) ==
    IF m = 2 THEN (IF IsLeap(y) THEN 29 ELSE 28)
    ELSE IF m \in {4, 6, 9, 11} THEN 30 ELSE 31

\* datetime(y, m, d) succeeds (no ValueError)
ValidDate(y, m, d) ==
    /\ y >= 1 /\ y <= 9999
    /\ m >= 1 /\ m <= 12
    /\ d >= 1 /\ d <= DaysInMonth(y, m)

RECURSIVE DaysBeforeMonth(_, _)
DaysBeforeMonth(y, m) ==
    IF m <= 1 THEN 0 ELSE DaysBeforeMonth(y, m - 1) + DaysInMonth(y, m - 1)

\* date.toordinal(): the order in which Python compares date objects
Ordinal(dt) ==
    LET y == dt[1] - 1
    IN  y * 365 + (y \div 4) - (y \div 100) + (y \div 400)
        + DaysBeforeMonth(dt[1], dt[2]) + dt[3]

\* date.isoformat(): "YYYY-MM-DD" as a sequence of characters
Digit(n) == CASE n = 0 -> "0" [] n = 1 -> "1" [] n = 2 -> "2" [] n = 3 -> "3"
              [] n = 4 -> "4" [] n = 5 -> "5" [] n = 6 -> "6" [] n = 7 -> "7"
              [] n = 8 -> "8" [] n = 9 -> "9"

DigitVal(c) == CASE c = "0" -> 0 [] c = "1" -> 1 [] c = "2" -> 2 [] c = "3" -> 3
                 [] c = "4" -> 4 [] c = "5" -> 5 [] c = "6" -> 6 [] c = "7" -> 7
                 [] c = "8" -> 8 [] c = "9" -> 9 [] OTHER -> -1

isoformat(dt) ==
    << Digit(dt[1] \div 1000), Digit((dt[1] \div 100) % 10),
       Digit((dt[1] \div 10) % 10), Digit(dt[1] % 10), "-",
       Digit(dt[2] \div 10), Digit(dt[2] % 10), "-",
       Digit(dt[3] \div 10), Digit(dt[3] % 10) >>

\* datetime.fromisoformat(s).date()
fromisoformat(s) ==
    << DigitVal(s[1]) * 1000 + DigitVal(s[2]) * 100 + DigitVal(s[3]) * 10 + DigitVal(s[4]),
       DigitVal(s[6]) * 10 + DigitVal(s[7]),
       DigitVal(s[9]) * 10 + DigitVal(s[10]) >>

\* Python's str comparison on two ISO date strings: a < b
RECURSIVE StrLessFrom(_, _, _)
StrLessFrom(a, b, i) ==
    IF i > Len(a) \/ i > Len(b) THEN Len(a) < Len(b)
    ELSE IF a[i] = b[i] THEN StrLessFrom(a, b, i + 1)
    ELSE IF a[i] = "-" THEN TRUE
    ELSE IF b[i] = "-" THEN FALSE
    ELSE DigitVal(a[i]) < DigitVal(b[i])

StrLess(a, b) == StrLessFrom(a, b, 1)

\* ------------------------------------------------------------------------
\* Date Recognizer
\* ------------------------------------------------------------------------
\* A text that may hold a date is a record [form, f1, f2, f3, sep, emb]:
\*   form "num": the digits f1 sep f2 sep f3, sep one of "/", "-", "."
\*   form "dby": "<f1> <month name f2> <f3>"  (f2 = 0: a word, not a month)
\*   form "bdy": "<month name f1> <f2>, <f3>" (f1 = 0: a word, not a month)
\*   form "none": text without a date shape;  form "empty": blank text
\* emb says that other text surrounds the date shape.
NoDate == <<>>

NoText == [form |-> "none", f1 |-> 0, f2 |-> 0, f3 |-> 0, sep |-> "/", emb |-> FALSE]

NumDigits(n) == IF n < 10 THEN 1 ELSE IF n < 100 THEN 2
                ELSE IF n < 1000 THEN 3 ELSE IF n < 10000 THEN 4 ELSE 5

\* datetime.strptime with %Y (four digits), %m and %d (one or two digits)
StrpOK(y, m, d) ==
    /\ NumDigits(y) = 4
    /\ NumDigits(m) <= 2 /\ NumDigits(d) <= 2
    /\ ValidDate(y, m, d)

\* the first candidate <<y, m, d>> that strptime accepts, NoDate if none
RECURSIVE FirstOk(_)
FirstOk(cands) ==
    IF cands = <<>> THEN NoDate
    ELSE IF StrpOK(Head(cands)[1], Head(cands)[2], Head(cands)[3]) THEN Head(cands)
         ELSE FirstOk(Tail(cands))

\* the readings the full-string formats give, in the order of fmts
FullFormats(t) ==
    CASE t.form = "dby" -> << <<t.f3, t.f2, t.f1>> >>
      [] t.form = "bdy" -> << <<t.f3, t.f1, t.f2>> >>
      [] t.form = "num" /\ t.sep = "/" ->
            << <<t.f3, t.f2, t.f1>>, <<t.f3, t.f1, t.f2>>, <<t.f1, t.f2, t.f3>> >>
      [] t.form = "num" /\ t.sep = "-" ->
            << <<t.f1, t.f2, t.f3>>, <<t.f3, t.f2, t.f1>> >>
      [] OTHER -> <<>>

\* the piece (\d{1,2}[/-]\d{1,2}[/-]\d{2,4}) finds inside a "num" text:
\* at most the last two digits of f1 and the first four of f3
FragmentMatches(t, seps) ==
    /\ t.form = "num" /\ t.sep \in seps
    /\ NumDigits(t.f2) <= 2 /\ NumDigits(t.f3) >= 2 /\ NumDigits(t.f3) <= 4

Fragment(t) == [t EXCEPT !.f1 = t.f1 % 100, !.emb = FALSE]

\* the readings of the embedded numeric fragment, in the order of the code:
\* "%m/%d/%Y", "%d/%m/%Y", "%d-%m-%Y", "%Y-%m-%d"
FragmentFormats(g) ==
    IF g.sep = "/" THEN << <<g.f3, g.f1, g.f2>>, <<g.f3, g.f2, g.f1>> >>
    ELSE << <<g.f3, g.f2, g.f1>>, <<g.f1, g.f2, g.f3>> >>

\* try_parse_date_any(text)
try_parse_date_any(t) ==
    IF t.form \in {"empty", "none"} THEN NoDate
    ELSE LET full == IF t.emb THEN NoDate ELSE FirstOk(FullFormats(t))
             frag == IF FragmentMatches(t, {"/", "-"})
                     THEN FirstOk(FragmentFormats(Fragment(t))) ELSE NoDate
             named == IF t.form = "bdy" THEN FirstOk(FullFormats(t)) ELSE NoDate
         IN  IF full # NoDate THEN full
             ELSE IF frag # NoDate THEN frag
             ELSE named

\* ------------------------------------------------------------------------
\* Draw Record Normalizer
\* ------------------------------------------------------------------------
IntVal(n) == [int |-> TRUE, v |-> n]
NonInt == [int |-> FALSE, v |-> 0]
Wrap(ns) == [i \in 1..Len(ns) |-> IntVal(ns[i])]

\* [x for x in s if Keep(x)], order preserved
FilterSeq(s, Keep(_)) == SelectSeq(s, Keep)

\* list.remove(x): drop the first element equal to x
RECURSIVE RemoveFirst(_, _)
RemoveFirst(s, x) ==
    IF s = <<>> THEN <<>>
    ELSE IF Head(s) = x THEN Tail(s) ELSE <<Head(s)>> \o RemoveFirst(Tail(s), x)

\* "for n in s: if Bad(n): s.remove(n)": removal while iterating, which
\* steps over the element that follows each removed one
RECURSIVE RemoveWhileIterating(_, _, _)
RemoveWhileIterating(s, Bad(_), i) ==
    IF i > Len(s) THEN s
    ELSE IF Bad(s[i]) THEN RemoveWhileIterating(RemoveFirst(s, s[i]), Bad, i + 1)
         ELSE RemoveWhileIterating(s, Bad, i + 1)

\* variant of _enforce_ranges that filters the two lists in place
_enforce_ranges_in_place(mains, bonus, page_id) ==
    IF ~HasRange(page_id) THEN [main |-> mains, bonus |-> bonus]
    ELSE LET main_max == GAME_RANGES[page_id].main_max
             bonus_max == GAME_RANGES[page_id].bonus_max
             BadM(n) == ~(n.int /\ 1 <= n.v /\ n.v <= main_max)
             BadB(n) == ~(n.int /\ 1 <= n.v /\ n.v <= bonus_max)
         IN  [main |-> RemoveWhileIterating(mains, BadM, 1),
              bonus |-> RemoveWhileIterating(bonus, BadB, 1)]

\* _enforce_ranges(mains, bonus, page_id): lists of candidate values in,
\* filtered lists out; untouched when page_id has no range entry
_enforce_ranges(mains, bonus, page_id) ==
    IF ~HasRange(page_id) THEN [main |-> mains, bonus |-> bonus]
    ELSE LET main_max == GAME_RANGES[page_id].main_max
             bonus_max == GAME_RANGES[page_id].bonus_max
             KeepM(n) == n.int /\ 1 <= n.v /\ n.v <= main_max
             KeepB(n) == n.int /\ 1 <= n.v /\ n.v <= bonus_max
         IN  [main |-> FilterSeq(mains, KeepM), bonus |-> FilterSeq(bonus, KeepB)]

\* A candidate argument of the normaliser: a lone int or a list
Scalar(n) == [scalar |-> TRUE, items |-> <<IntVal(n)>>]
ListOf(items) == [scalar |-> FALSE, items |-> items]

\* variant of the normalised record without the range filter
NormalizedDrawUnranged(date_obj, mains, bonus, page_id) ==
    LET Pos(n) == n.int /\ n.v >= 1
        m1 == FilterSeq(mains.items, Pos)
        b1 == FilterSeq(bonus.items, Pos)
    IN  [date  |-> isoformat(date_obj),
         main  |-> [i \in 1..Len(m1) |-> m1[i].v],
         bonus |-> [i \in 1..Len(b1) |-> b1[i].v]]

\* the normalised record built by _normalize_and_append
NormalizedDraw(date_obj, mains, bonus, page_id) ==
    LET Pos(n) == n.int /\ n.v >= 1
        m1 == FilterSeq(mains.items, Pos)
        b1 == FilterSeq(bonus.items, Pos)
        r  == _enforce_ranges(m1, b1, page_id)
    IN  [date  |-> isoformat(date_obj),
         main  |-> [i \in 1..Len(r.main) |-> r.main[i].v],
         bonus |-> [i \in 1..Len(r.bonus) |-> r.bonus[i].v]]

\* _normalize_and_append(draws_list, date_obj, mains, bonus, page_id)
_normalize_and_append(draws_list, date_obj, mains, bonus, page_id) ==
    Append(draws_list, NormalizedDraw(date_obj, mains, bonus, page_id))

\* ------------------------------------------------------------------------
\* Recency Filter & Frequency Counter
\* ------------------------------------------------------------------------
\* variant of the comparison with a strict bound
StrictlyNewerThan(d, cutoffOrd) == Ordinal(d) > cutoffOrd

\* the comparison of filter_recent: date >= cutoff on date objects
NotOlderThan(d, cutoffOrd) == Ordinal(d) >= cutoffOrd

\* filter_recent(draws, days_back), with utcnow().date() = now
filter_recent(draws, days_back, now) ==
    LET cutoff == Ordinal(now) - days_back
        Keep(d) == NotOlderThan(fromisoformat(d.date), cutoff)
    IN  FilterSeq(draws, Keep)

\* collections.Counter as the insertion-ordered list of its items
RECURSIVE CounterUpdate(_, _)
CounterAdd(cnt, n) ==
    IF \E i \in 1..Len(cnt) : cnt[i].number = n
    THEN [i \in 1..Len(cnt) |->
            IF cnt[i].number = n
            THEN [number |-> n, count |-> cnt[i].count + 1] ELSE cnt[i]]
    ELSE Append(cnt, [number |-> n, count |-> 1])

\* Counter.update(iterable)
CounterUpdate(cnt, ns) ==
    IF ns = <<>> THEN cnt ELSE CounterUpdate(CounterAdd(cnt, Head(ns)), Tail(ns))

\* does item x go before item y in most_common's order, x met first?
\* (sorted(..., key=count, reverse=True) is stable: ties keep insertion order)
RanksBefore(x, y) == x.count >= y.count

RECURSIVE InsertRanked(_, _)
\* insert x, met after every item of the ranked list s
InsertRanked(s, x) ==
    IF s = <<>> THEN <<x>>
    ELSE IF RanksBefore(Head(s), x) THEN <<Head(s)>> \o InsertRanked(Tail(s), x)
         ELSE <<x>> \o s

RECURSIVE SortRanked(_)
SortRanked(cnt) ==
    IF cnt = <<>> THEN <<>>
    ELSE InsertRanked(SortRanked(SubSeq(cnt, 1, Len(cnt) - 1)), cnt[Len(cnt)])

\* variant of most_common that returns every item
most_common_all(cnt, n) == SortRanked(cnt)

\* Counter.most_common(n)
most_common(cnt, n) == Slice(SortRanked(cnt), 0, n)

RECURSIVE TallyDraws(_, _, _)
\* the loop of compute_hot: the two counters after all draws
TallyDraws(draws, page_id, acc) ==
    IF draws = <<>> THEN acc
    ELSE LET d == Head(draws)
             KeepM(n) == n >= 1 /\ (HasRange(page_id) => n <= GAME_RANGES[page_id].main_max)
             KeepB(n) == n >= 1 /\ (HasRange(page_id) => n <= GAME_RANGES[page_id].bonus_max)
         IN  TallyDraws(Tail(draws), page_id,
                        [mc |-> CounterUpdate(acc.mc, FilterSeq(d.main, KeepM)),
                         bc |-> CounterUpdate(acc.bc, FilterSeq(d.bonus, KeepB))])

\* compute_hot(draws, top_main_n, top_bonus_n, page_id)
compute_hot(draws, top_main_n, top_bonus_n, page_id) ==
    LET t == TallyDraws(draws, page_id, [mc |-> <<>>, bc |-> <<>>])
    IN  [top_main |-> most_common(t.mc, top_main_n),
         top_bonus |-> most_common(t.bc, top_bonus_n)]

\* ------------------------------------------------------------------------
\* State
\* ------------------------------------------------------------------------
VARIABLES
    now,          \* datetime.utcnow().date()
    normIn,       \* arguments of _normalize_and_append
    normDraws,    \* its draws_list
    hotIn,        \* arguments of filter_recent / compute_hot
    hotPc,        \* "start", "filtered", "counted"
    hotRecent,    \* result of filter_recent
    hotTop,       \* result of compute_hot on the draws
    hotTopPerm,   \* result of compute_hot on the same draws in another order
    db,           \* run_and_save: the Firestore client, or NoneDb
    pc,           \* run_and_save: position in the run
    idx,          \* run_and_save: index of the current source in LOTTERIES
    draws,        \* run_and_save: the current source's Draw list
    vi,           \* fetch_csv: index of the next URL variant
    tried,        \* fetch_csv: the URL variants already requested
    results,      \* run_and_save: the returned mapping key -> report
    saved,        \* keys whose local <key>_hot.json was written
    storeAttempts, \* keys for which a Firestore write was issued
    storeFailed,  \* keys whose Firestore write raised
    attempts,     \* the extraction stages tried for the current source
    visited,      \* the keys the loop has entered, in order
    exhausted,    \* keys for which every stage failed or parsed nothing
    otherFault,   \* keys whose processing raised outside the store write
    faulty,       \* keys on which the environment has misbehaved
    pgIn,         \* paginated extractor: its arguments and the remote site
    pgPc,         \* paginated extractor: "loop" or "done"
    pgPage,       \* paginated extractor: page
    pgLast,       \* paginated extractor: last_page (0: None)
    pgDraws,      \* paginated extractor: draws collected so far
    pgReq,        \* the page numbers of the URLs requested, in order
    pgFailed,     \* did the last request or parse fail?
    pgOut,        \* paginated extractor: the returned list
    pgSeen,       \* paginated extractor: the result blocks of the last page
    exIn,         \* extractors: the raw input and the page identifier
    exPc,         \* extractors: the stage about to run, or "done"
    exSel,        \* scrape_html: index of the alternate selector about to run
    exSeen,       \* extractors: the content the last stage was given
    exDraws,      \* extractors: the returned Draw list
    exFrom,       \* for each returned Draw, the input fragment it came from
    dtIn,         \* try_parse_date_any: its text
    dtPc,         \* try_parse_date_any: "start" or "done"
    dtOut         \* try_parse_date_any: the returned date, or NoDate

normVars == <<normIn, normDraws>>
hotVars == <<hotIn, hotPc, hotRecent, hotTop, hotTopPerm>>
runVars == <<db, pc, idx, draws, vi, tried, results, saved, storeAttempts,
             storeFailed, attempts, visited, exhausted, otherFault, faulty>>
pageVars == <<pgIn, pgPc, pgPage, pgLast, pgDraws, pgReq, pgFailed, pgOut,
              pgSeen>>
extVars == <<exIn, exPc, exSel, exSeen, exDraws, exFrom>>
dateVars == <<dtIn, dtPc, dtOut>>
vars == <<now, normVars, hotVars, runVars, pageVars, extVars, dateVars>>

\* what the steps of each part of the program leave alone
exceptNorm == <<now, hotVars, runVars, pageVars, extVars, dateVars>>
exceptHot == <<now, normVars, runVars, pageVars, extVars, dateVars>>
exceptRun == <<now, normVars, hotVars, pageVars, extVars, dateVars>>
exceptPage == <<now, normVars, hotVars, runVars, extVars, dateVars>>
exceptExt == <<now, normVars, hotVars, runVars, pageVars, dateVars>>
exceptDate == <<now, normVars, hotVars, runVars, pageVars, extVars>>

NormIdle == normIn = <<>> /\ normDraws = <<>>
HotIdle == hotIn = <<>> /\ hotPc = "idle" /\ hotRecent = <<>>
           /\ hotTop = <<>> /\ hotTopPerm = <<>>
RunIdle == /\ db = "idle" /\ pc = "idle" /\ idx = 0 /\ draws = <<>> /\ vi = 0
           /\ tried = {} /\ results = <<>> /\ saved = {} /\ storeAttempts = {}
           /\ storeFailed = {} /\ attempts = <<>> /\ visited = <<>>
           /\ exhausted = {} /\ otherFault = {} /\ faulty = {}
ExtIdle == /\ exIn = <<>> /\ exPc = "idle" /\ exSel = 0 /\ exSeen = <<>>
           /\ exDraws = <<>> /\ exFrom = <<>>
DateIdle == dtIn = <<>> /\ dtPc = "idle" /\ dtOut = <<>>
PageIdle == /\ pgIn = <<>> /\ pgPc = "idle" /\ pgPage = 0 /\ pgLast = 0
            /\ pgDraws = <<>> /\ pgReq = <<>> /\ pgFailed = FALSE /\ pgOut = <<>>
            /\ pgSeen = <<>>

\* ------------------------------------------------------------------------
\* The normaliser applied to a candidate record, then to its own output
\* ------------------------------------------------------------------------
NormPool == {IntVal(0), IntVal(1), IntVal(9), IntVal(10), IntVal(50), NonInt}
NormScalars == {Scalar(0), Scalar(9), Scalar(50)}
NormGames == {"spain_loterias", "lotto", NoneId}

NormInputs ==
    [date : {<<2024, 3, 14>>},
     mains : {ListOf(x) : x \in SeqsUpTo(NormPool, MaxCand)} \cup NormScalars,
     bonus : {ListOf(x) : x \in SeqsUpTo(NormPool, 1)} \cup NormScalars,
     page_id : NormGames]

NormInit ==
    /\ now = Today
    /\ normIn \in NormInputs
    /\ normDraws = <<>>
    /\ HotIdle /\ RunIdle /\ PageIdle /\ ExtIdle /\ DateIdle

\* first call: the raw candidates
Normalize ==
    /\ Len(normDraws) = 0
    /\ normDraws' = _normalize_and_append(normDraws, normIn.date, normIn.mains,
                                          normIn.bonus, normIn.page_id)
    /\ UNCHANGED <<normIn, exceptNorm>>

\* second call: the produced record's main and bonus as candidates
Renormalize ==
    /\ Len(normDraws) = 1
    /\ normDraws' = _normalize_and_append(normDraws, normIn.date,
                                          ListOf(Wrap(normDraws[1].main)),
                                          ListOf(Wrap(normDraws[1].bonus)),
                                          normIn.page_id)
    /\ UNCHANGED <<normIn, exceptNorm>>

NormNext == Normalize \/ Renormalize

NormSpec == NormInit /\ [][NormNext]_vars

\* C8: normalising a record and then normalising the produced main and bonus
\* again (same date, same game identifier) gives a record equal to the first.
NormalizerIdempotent ==
    Len(normDraws) = 2 => normDraws[2] = normDraws[1]

\* a second pass happened on a record whose first pass dropped a main value
\* and a bonus value under a range rule and still kept some of each
NormalizerIdempotentWitness ==
    /\ Len(normDraws) = 2
    /\ HasRange(normIn.page_id)
    /\ normDraws[1].main # <<>> /\ normDraws[1].bonus # <<>>
    /\ \E i \in 1..Len(normIn.mains.items) :
          /\ normIn.mains.items[i].int
          /\ normIn.mains.items[i].v > GAME_RANGES[normIn.page_id].main_max

\* ------------------------------------------------------------------------
\* The recency filter and the counter applied to a list of draws
\* ------------------------------------------------------------------------
DAYS_BACK == 60

\* the calendar date a given number of days before Today
HotAges == {0, 1, DAYS_BACK, DAYS_BACK + 1}
DateAgo(k) ==
    CASE k = 0 -> <<2025, 3, 1>>
      [] k = 1 -> <<2025, 2, 28>>
      [] k = DAYS_BACK -> <<2024, 12, 31>>
      [] k = DAYS_BACK + 1 -> <<2024, 12, 30>>
HotMains == {<<3>>, <<1, 3>>, <<70, 1>>}
HotBonus == {<<>>, <<2>>}
HotItems == [age : HotAges, main : HotMains, bonus : HotBonus]

\* the Draw records of a list of items, each dated age days before now
DrawsOf(items) ==
    [i \in 1..Len(items) |->
        [date |-> isoformat(DateAgo(items[i].age)),
         main |-> items[i].main, bonus |-> items[i].bonus]]

Perms(n) == {f \in [1..n -> 1..n] : \A i, j \in 1..n : f[i] = f[j] => i = j}
Permute(s, f) == [i \in 1..Len(s) |-> s[f[i]]]

HotInit ==
    /\ now = Today
    /\ hotIn \in [items : SeqsUpTo(HotItems, MaxDraws),
                  days : {0, DAYS_BACK},
                  n : {1, 2, 10},
                  page_id : {"lotto", "powerball"}]
    /\ hotPc = "start"
    /\ hotRecent = <<>> /\ hotTop = <<>> /\ hotTopPerm = <<>>
    /\ NormIdle /\ RunIdle /\ PageIdle /\ ExtIdle /\ DateIdle

ApplyFilterRecent ==
    /\ hotPc = "start"
    /\ hotRecent' = filter_recent(DrawsOf(hotIn.items), hotIn.days, now)
    /\ hotPc' = "filtered"
    /\ UNCHANGED <<hotIn, hotTop, hotTopPerm, exceptHot>>

\* compute_hot on the recent draws, and on the same draws in another order
ApplyComputeHot ==
    /\ hotPc = "filtered"
    /\ \E f \in Perms(Len(hotRecent)) :
          /\ hotTop' = compute_hot(hotRecent, hotIn.n, hotIn.n, hotIn.page_id)
          /\ hotTopPerm' = compute_hot(Permute(hotRecent, f), hotIn.n, hotIn.n,
                                       hotIn.page_id)
    /\ hotPc' = "counted"
    /\ UNCHANGED <<hotIn, hotRecent, exceptHot>>

HotNext == ApplyFilterRecent \/ ApplyComputeHot

HotSpec == HotInit /\ [][HotNext]_vars

\* is the ranked list r ordered by count descending, ties by ascending number?
RankedCountDescNumberAsc(r) ==
    \A i, j \in 1..Len(r) :
        i < j => \/ r[i].count > r[j].count
                 \/ (r[i].count = r[j].count /\ r[i].number < r[j].number)

\* C3: for a fixed multiset of Draws and fixed N, compute_hot returns the same
\* ordered top-N list for every permutation of the Draw list, ordered by count
\* descending with ties broken by ascending number.
RankingDeterministic ==
    hotPc = "counted" =>
        /\ hotTop = hotTopPerm
        /\ RankedCountDescNumberAsc(hotTop.top_main)
        /\ RankedCountDescNumberAsc(hotTop.top_bonus)

\* the items of s at the indices where Keep holds, in order
RECURSIVE PickFrom(_, _, _)
PickFrom(s, keepAt, i) ==
    IF i > Len(s) THEN <<>>
    ELSE IF keepAt[i] THEN <<s[i]>> \o PickFrom(s, keepAt, i + 1)
         ELSE PickFrom(s, keepAt, i + 1)

\* C6: filter_recent keeps a Draw iff it is dated at most window_days before
\* today (exactly window_days: kept; window_days + 1: dropped), and the kept
\* records are the input records in their original relative order.
RecencyBoundary ==
    hotPc # "start" =>
        hotRecent = PickFrom(DrawsOf(hotIn.items),
                             [i \in 1..Len(hotIn.items) |->
                                 hotIn.items[i].age <= hotIn.days], 1)

\* a filtered list with a draw dated exactly window_days ago (kept) before a
\* draw dated one day earlier (dropped)
RecencyBoundaryWitness ==
    /\ hotPc # "start" /\ hotIn.days = DAYS_BACK
    /\ Len(hotIn.items) = 2
    /\ hotIn.items[1].age = DAYS_BACK + 1
    /\ hotIn.items[2].age = DAYS_BACK
    /\ Len(hotRecent) = 1

\* ------------------------------------------------------------------------
\* run_and_save: the per-source loop
\* ------------------------------------------------------------------------
NoneDb == "None"

\* url + text, text made of path segments and an optional query
Plus(url, segs, query) ==
    IF url.query = <<>> THEN Url(url.path \o segs, query)
    ELSE Url(url.path, url.query \o segs \o query)

\* html.endswith("/draw-history")
EndsWithDrawHistory(url) ==
    /\ url.query = <<>> /\ Len(url.path) >= 2
    /\ url.path[Len(url.path)] = "draw-history"

\* the variants list fetch_csv builds for a source
CsvVariants(cfg) ==
    LET a == IF cfg.csv_url = NoUrl THEN <<>>
             ELSE IF cfg.csv_url.query = <<>>
                  THEN <<cfg.csv_url, Plus(cfg.csv_url, <<>>, <<"draws=200">>)>>
                  ELSE <<cfg.csv_url>>
        h == cfg.html_url
        b == IF h = NoUrl THEN <<>>
             ELSE IF EndsWithDrawHistory(h)
                  THEN <<Plus(h, <<"csv">>, <<>>), Plus(h, <<"draw-history", "csv">>, <<>>)>>
                  ELSE <<Plus(h, <<"csv">>, <<>>), Plus(h, <<"csv">>, <<"draws=200">>)>>
    IN  a \o b

\* variant of the loop test that forgets the tried set
AlwaysUntried(u, tr) == u # NoUrl

\* "if not u or u in tried: continue"
Untried(u, tr) == u # NoUrl /\ u \notin tr

\* index of the next variant fetch_csv requests, 0 when the loop is over
NextVariant(variants, from, tr) ==
    IF \E j \in from..Len(variants) : Untried(variants[j], tr)
    THEN CHOOSE j \in from..Len(variants) :
            /\ Untried(variants[j], tr)
            /\ \A l \in from..(j - 1) : ~Untried(variants[l], tr)
    ELSE 0

\* the draws a stage parses when the remote side answers well: the j-th
\* request of a source yields j draws
SampleAges == <<0, DAYS_BACK + 1, 1, DAYS_BACK, DAYS_BACK + 1>>
SampleDraws(j) ==
    [i \in 1..j |-> [date |-> isoformat(DateAgo(SampleAges[i])),
                     main |-> <<3, i>>, bonus |-> <<2>>]]

Key == LOTTERIES_KEYS[idx]
Cfg == LOTTERIES[Key]

\* may the environment misbehave on the current source?
MayFault == Key \in faulty \/ Cardinality(faulty) < MaxFaulty

\* the outcomes of one remote request: an exception, nothing parsed, draws
StageOutcomes(canRaise) ==
    {[raised |-> FALSE, draws |-> SampleDraws(Len(attempts) + 1)]}
    \cup (IF MayFault THEN {[raised |-> FALSE, draws |-> <<>>]} ELSE {})
    \cup (IF MayFault /\ canRaise THEN {[raised |-> TRUE, draws |-> <<>>]} ELSE {})

Nominal(o) == ~o.raised /\ o.draws # <<>>

\* variant of the per-source handler that lets the exception end the run
AbortRun == "aborted"

\* "except Exception as e: print(...)": the loop goes on with the next source
OnSourceException == "loop"

\* variant of the store guard that gives up after the first failed write
ShouldWriteStoreUntilFailure(d) == d # NoneDb /\ storeFailed = {}

\* "if db is not None:"
ShouldWriteStore(d) == d # NoneDb

TopN(key, field) == IF key \in DOMAIN HOT_TOP_N THEN HOT_TOP_N[key][field] ELSE 10

\* the report dictionary (without its fetched_at timestamp)
ReportOf(key, ds) ==
    LET recent == filter_recent(ds, DAYS_BACK, now)
        top == compute_hot(recent, TopN(key, "top_main"), TopN(key, "top_bonus"), key)
    IN  [draws_total |-> Len(ds), draws_recent |-> Len(recent),
         top_main |-> top.top_main, top_bonus |-> top.top_bonus]

Init ==
    /\ now = Today
    /\ db = NoneDb /\ pc = "init" /\ idx = 1 /\ draws = <<>> /\ vi = 1
    /\ tried = {} /\ results = <<>> /\ saved = {} /\ storeAttempts = {}
    /\ storeFailed = {} /\ attempts = <<>> /\ visited = <<>>
    /\ exhausted = {} /\ otherFault = {} /\ faulty = {}
    /\ NormIdle /\ HotIdle /\ PageIdle /\ ExtIdle /\ DateIdle

\* db = init_firestore(), or None when it raises
InitFirestore ==
    /\ pc = "init"
    /\ \E ok \in BOOLEAN : db' = IF ok THEN "client" ELSE NoneDb
    /\ pc' = "loop"
    /\ UNCHANGED <<exceptRun, idx, draws, vi, tried, results, saved,
                   storeAttempts, storeFailed, attempts, visited, exhausted,
                   otherFault, faulty>>

\* the loop takes the next source
BeginSource ==
    /\ pc = "loop" /\ idx <= Len(LOTTERIES_KEYS)
    /\ visited' = Append(visited, Key)
    /\ draws' = <<>> /\ attempts' = <<>> /\ tried' = {} /\ vi' = 1
    /\ pc' = IF Cfg.csv_url # NoUrl THEN "csv" ELSE "html"
    /\ UNCHANGED <<exceptRun, db, idx, results, saved, storeAttempts,
                   storeFailed, exhausted, otherFault, faulty>>

\* fetch_csv: one more URL variant is requested and parsed
CsvAttempt ==
    /\ pc = "csv"
    /\ LET j == NextVariant(CsvVariants(Cfg), vi, tried)
       IN  /\ j # 0
           /\ \E o \in StageOutcomes(TRUE) :
                 /\ attempts' = Append(attempts,
                        [stage |-> "csv", url |-> CsvVariants(Cfg)[j],
                         raised |-> o.raised, draws |-> o.draws])
                 /\ tried' = tried \cup {CsvVariants(Cfg)[j]}
                 /\ vi' = j + 1
                 /\ draws' = o.draws
                 /\ pc' = IF o.draws # <<>> THEN "report" ELSE "csv"
                 /\ faulty' = IF Nominal(o) THEN faulty ELSE faulty \cup {Key}
    /\ UNCHANGED <<exceptRun, db, idx, results, saved, storeAttempts,
                   storeFailed, visited, exhausted, otherFault>>

\* fetch_csv: no variant is left, it returns []
CsvExhausted ==
    /\ pc = "csv"
    /\ NextVariant(CsvVariants(Cfg), vi, tried) = 0
    /\ draws' = <<>>
    /\ pc' = "html"
    /\ UNCHANGED <<exceptRun, db, idx, vi, tried, results, saved,
                   storeAttempts, storeFailed, attempts, visited, exhausted,
                   otherFault, faulty>>

\* the HTML fallback: scrape_lotteryguru_fortune_thursday (never raises) for
\* the paginated source, scrape_html (fetch_soup may raise) for the others
HtmlAttempt ==
    /\ pc = "html"
    /\ LET paginated == Cfg.page_id = "ghana_fortune_thursday"
       IN  \E o \in StageOutcomes(~paginated) :
              /\ attempts' = Append(attempts,
                     [stage |-> IF paginated THEN "paginated" ELSE "html",
                      url |-> Cfg.html_url, raised |-> o.raised, draws |-> o.draws])
              /\ draws' = o.draws
              /\ exhausted' = IF o.draws = <<>> THEN exhausted \cup {Key} ELSE exhausted
              /\ faulty' = IF Nominal(o) THEN faulty ELSE faulty \cup {Key}
              /\ IF o.raised
                 THEN /\ pc' = OnSourceException
                      /\ idx' = idx + 1
                      /\ otherFault' = otherFault \cup {Key}
                 ELSE /\ pc' = "report"
                      /\ UNCHANGED <<idx, otherFault>>
    /\ UNCHANGED <<exceptRun, db, vi, tried, results, saved,
                   storeAttempts, storeFailed, visited>>

\* filter, count, put the report in results, write the local file, write
\* the document to the store
Report ==
    /\ pc = "report"
    /\ results' = (Key :> ReportOf(Key, draws)) @@ results
    /\ \E fileOk \in {TRUE} \cup (IF MayFault THEN {FALSE} ELSE {}),
          storeOk \in {TRUE} \cup (IF MayFault THEN {FALSE} ELSE {}) :
          IF ~fileOk
          THEN /\ storeOk
               /\ pc' = OnSourceException
               /\ otherFault' = otherFault \cup {Key}
               /\ faulty' = faulty \cup {Key}
               /\ UNCHANGED <<saved, storeAttempts, storeFailed>>
          ELSE /\ saved' = saved \cup {Key}
               /\ pc' = "loop"
               /\ UNCHANGED otherFault
               /\ IF ShouldWriteStore(db)
                  THEN /\ storeAttempts' = storeAttempts \cup {Key}
                       /\ storeFailed' = IF storeOk THEN storeFailed
                                         ELSE storeFailed \cup {Key}
                       /\ faulty' = IF storeOk THEN faulty ELSE faulty \cup {Key}
                  ELSE /\ storeOk
                       /\ UNCHANGED <<storeAttempts, storeFailed, faulty>>
    /\ idx' = idx + 1
    /\ UNCHANGED <<exceptRun, db, draws, vi, tried, attempts, visited,
                   exhausted>>

\* the loop is over: return results
Finish ==
    /\ pc = "loop" /\ idx > Len(LOTTERIES_KEYS)
    /\ pc' = "done"
    /\ UNCHANGED <<exceptRun, db, idx, draws, vi, tried, results,
                   saved, storeAttempts, storeFailed, attempts, visited, exhausted,
                   otherFault, faulty>>

Next ==
    \/ InitFirestore \/ BeginSource \/ CsvAttempt \/ CsvExhausted
    \/ HtmlAttempt \/ Report \/ Finish

Spec == Init /\ [][Next]_vars

ZeroReport ==
    [draws_total |-> 0, draws_recent |-> 0, top_main |-> <<>>, top_bonus |-> <<>>]

\* C4: after run_and_save finishes, results hold a report for every
\* configured source, and a source whose every stage failed or parsed nothing
\* has the report draws_total = 0, draws_recent = 0, top_main = [],
\* top_bonus = [].
EverySourceReported ==
    pc = "done" =>
        \A k \in Range(LOTTERIES_KEYS) :
            /\ k \in DOMAIN results
            /\ k \in exhausted => results[k] = ZeroReport

IsPrefix(s, t) == Len(s) <= Len(t) /\ s = SubSeq(t, 1, Len(s))

\* progress measure of the run: the source index, then the position within
\* the source, then the number of stages tried
RunMeasure ==
    idx * 100 + Len(attempts)
    + (CASE pc = "init" -> 0 [] pc = "loop" -> 10 [] pc = "csv" -> 20
         [] pc = "html" -> 30 [] pc = "report" -> 40 [] OTHER -> 50)

\* the positions of the run; each but "done" has a step to take (the loop
\* position by BeginSource or Finish, the csv position by CsvAttempt or
\* CsvExhausted, the others by the action of their name)
RunPositions == {"init", "loop", "csv", "html", "report", "done"}

\* C5: whatever failure occurs while one source is processed, the sources
\* that follow it are still processed: the loop enters the sources in table
\* order, each once; the run has entered all of them when it ends; and it
\* does end, since every step raises a bounded measure and the run never
\* leaves the positions that have a step to take.
FailureIsolated ==
    /\ [](/\ IsPrefix(visited, LOTTERIES_KEYS)
          /\ pc = "done" => visited = LOTTERIES_KEYS
          /\ pc \in RunPositions
          /\ RunMeasure <= 100 * (Len(LOTTERIES_KEYS) + 1) + 59)
    /\ [][RunMeasure' > RunMeasure]_vars

\* the run is over and entered every source although one of them raised
FailureIsolatedWitness ==
    /\ pc = "done" /\ visited = LOTTERIES_KEYS
    /\ otherFault # {}
    /\ \E i \in 1..(Len(LOTTERIES_KEYS) - 1) : LOTTERIES_KEYS[i] \in otherFault

StageRank(a) == IF a.stage = "csv" THEN 1 ELSE 2

\* C9: per source the stages run in the order CSV variants, then HTML (the
\* paginated extractor instead of plain HTML for the paginated-feed source);
\* a later stage runs only if every earlier one raised or returned nothing;
\* the source's Draw list is the output of the first stage that yields a
\* record; no stage and no CSV URL variant is attempted twice.
FallbackOrder ==
    pc \in {"csv", "html", "report"} =>
        /\ \A i, j \in 1..Len(attempts) :
              i < j => /\ StageRank(attempts[i]) <= StageRank(attempts[j])
                       /\ attempts[i].draws = <<>>
                       /\ <<attempts[i].stage, attempts[i].url>>
                            # <<attempts[j].stage, attempts[j].url>>
        /\ \A i \in 1..Len(attempts) :
              /\ attempts[i].stage = "paginated"
                   <=> (StageRank(attempts[i]) = 2
                        /\ Cfg.page_id = "ghana_fortune_thursday")
              /\ attempts[i].stage = "csv" => Cfg.csv_url # NoUrl
        /\ pc = "report" =>
              /\ attempts # <<>>
              /\ draws = attempts[Len(attempts)].draws

\* a source whose CSV variants all came back empty or failed, more than two
\* of them, and whose HTML stage then gave the draws
FallbackOrderWitness ==
    /\ pc = "report" /\ Len(attempts) >= 4
    /\ attempts[Len(attempts)].stage = "html"
    /\ draws # <<>>
    /\ \E i \in 1..Len(attempts) : attempts[i].raised

Finished == {LOTTERIES_KEYS[i] : i \in 1..(idx - 1)}
Position(k) == CHOOSE i \in 1..Len(LOTTERIES_KEYS) : LOTTERIES_KEYS[i] = k

Pow10(k) == CASE k = 0 -> 1 [] k = 1 -> 10 [] k = 2 -> 100 [] k = 3 -> 1000
              [] k = 4 -> 10000 [] OTHER -> 100000

\* re.findall(r'\d{1,w}') on one run of d digits of value v: pieces of w
\* digits from the left
RECURSIVE Chunks(_, _, _)
Chunks(v, d, w) ==
    IF d <= w THEN <<v>>
    ELSE <<v \div Pow10(d - w)>> \o Chunks(v % Pow10(d - w), d - w, w)

RECURSIVE Flatten(_)
Flatten(ss) == IF ss = <<>> THEN <<>> ELSE Head(ss) \o Flatten(Tail(ss))

\* re.findall(r'\d{1,w}', text), text given by its digit runs
FindDigits(runs, w) ==
    Flatten([i \in 1..Len(runs) |-> Chunks(runs[i], NumDigits(runs[i]), w)])

\* re.findall(r'\b(\d{1,w})\b', text): only the runs of at most w digits
FindWholeNumbers(runs, w) ==
    LET Short(v) == NumDigits(v) <= w IN FilterSeq(runs, Short)

\* The piece a caller's date regex cuts out of a text before handing it to
\* try_parse_date_any (NoText: no match).  seps are the separators its
\* numeric alternative allows, named says whether it has the "Month d, yyyy"
\* alternative.
RegexPiece(t, seps, named) ==
    IF t.form = "dby" /\ NumDigits(t.f3) = 4
    THEN [t EXCEPT !.f1 = t.f1 % 100, !.emb = FALSE]
    ELSE IF FragmentMatches(t, seps) THEN Fragment(t)
    ELSE IF t.form = "bdy" /\ named /\ NumDigits(t.f2) <= 2 /\ NumDigits(t.f3) = 4
    THEN [t EXCEPT !.emb = FALSE]
    ELSE NoText

AllSeps == {"/", ".", "-"}

\* ------------------------------------------------------------------------
\* scrape_lotteryguru_fortune_thursday
\* ------------------------------------------------------------------------
\* A result block (div.lg-line) is a record
\*   cand: the text "<strong> <year>" of its second div.lg-date (NoText: absent)
\*   txt:  the date-shaped piece the regex finds in the block's text
\*   ul:   is there a ul.lg-numbers-small.game-number?
\*   lis:  the first number of each li.lg-number that has a digit
\*   runs: the digit runs of the block's whole text, in order
DateTextOf(form, f1, f2, f3) ==
    [form |-> form, f1 |-> f1, f2 |-> f2, f3 |-> f3, sep |-> "/", emb |-> FALSE]

\* the date of a block, NoDate when none is recognised
BlockDate(b) ==
    LET d1 == IF b.cand # NoText THEN try_parse_date_any(b.cand) ELSE NoDate
    IN  IF d1 # NoDate THEN d1
        ELSE LET m == RegexPiece(b.txt, AllSeps, FALSE)
             IN  IF m # NoText THEN try_parse_date_any(m) ELSE NoDate

\* the numbers of a dated block
BlockNumbers(b, date_obj) ==
    IF b.ul THEN b.lis
    ELSE LET NotYear(n) == n # date_obj[1]
             found == FilterSeq(FindDigits(b.runs, 3), NotYear)
         IN  IF Len(found) >= 5 THEN LastN(found, 5) ELSE found

RECURSIVE parse_page(_)
\* parse_page(html): the page_draws of the result blocks of a page
parse_page(blocks) ==
    IF blocks = <<>> THEN <<>>
    ELSE LET b == Head(blocks)
             date_obj == BlockDate(b)
             nums == BlockNumbers(b, date_obj)
         IN  IF date_obj = NoDate \/ Len(nums) < 5 THEN parse_page(Tail(blocks))
             ELSE <<[date |-> isoformat(date_obj), main |-> Slice(nums, 0, 5),
                     bonus |-> <<>>]>> \o parse_page(Tail(blocks))

\* variant of the duplicate filter that keeps every record
KeepAll(ds) == ds

RECURSIVE Dedupe(_)
\* the seen-set loop: the first record of each (date, main, bonus) key
Dedupe(ds) ==
    IF ds = <<>> THEN <<>>
    ELSE LET rest == Dedupe(SubSeq(ds, 1, Len(ds) - 1))
             d == ds[Len(ds)]
         IN  IF \E i \in 1..Len(rest) : rest[i] = d THEN rest ELSE Append(rest, d)

RECURSIVE InsertNewestFirst(_, _)
\* x, met after every record of s, goes behind the records dated as x or later
InsertNewestFirst(s, x) ==
    IF s = <<>> THEN <<x>>
    ELSE IF StrLess(Head(s).date, x.date) THEN <<x>> \o s
         ELSE <<Head(s)>> \o InsertNewestFirst(Tail(s), x)

RECURSIVE SortNewestFirst(_)
\* list.sort(key=lambda x: x["date"], reverse=True): stable, by the ISO string
SortNewestFirst(ds) ==
    IF ds = <<>> THEN <<>>
    ELSE InsertNewestFirst(SortNewestFirst(SubSeq(ds, 1, Len(ds) - 1)), ds[Len(ds)])

\* the list the extractor returns for the collected draws
PageResult(ds) == SortNewestFirst(Dedupe(ds))

PageCap == 50

\* min(dates_on_page), as an ordinal; 0 for a page without draws
RECURSIVE OldestOrdinal(_)
OldestOrdinal(page_draws) ==
    IF page_draws = <<>> THEN 0
    ELSE LET o == Ordinal(fromisoformat(Head(page_draws).date))
             r == OldestOrdinal(Tail(page_draws))
         IN  IF r = 0 \/ o < r THEN o ELSE r

\* the result blocks the remote site may serve
Numbers5 == <<5, 12, 23, 44, 55>>
BlockPool ==
    { [cand |-> DateTextOf("dby", 1, 3, 2025), txt |-> NoText, ul |-> TRUE,
       lis |-> Numbers5, runs |-> <<1, 2025, 5, 12, 23, 44, 55>>],
      [cand |-> DateTextOf("dby", 31, 12, 2024), txt |-> NoText, ul |-> TRUE,
       lis |-> Numbers5, runs |-> <<31, 2024, 5, 12, 23, 44, 55>>],
      [cand |-> NoText, txt |-> DateTextOf("dby", 30, 12, 2024), ul |-> FALSE,
       lis |-> <<>>, runs |-> <<30, 2024, 5, 12, 23, 44>>],
      [cand |-> NoText, txt |-> DateTextOf("dby", 1, 3, 2025), ul |-> FALSE,
       lis |-> <<>>, runs |-> <<1, 2025, 7, 5, 12, 23, 44, 55>>],
      [cand |-> DateTextOf("dby", 1, 0, 2025), txt |-> NoText, ul |-> TRUE,
       lis |-> Numbers5, runs |-> <<1, 2025, 5, 12, 23, 44, 55>>] }

PageInit ==
    /\ now = Today
    /\ pgIn \in [hasPage : BOOLEAN, siteLast : {2, PageCap + 10},
                 days_back : {DAYS_BACK}]
    /\ pgPc = "loop" /\ pgPage = 1 /\ pgLast = 0
    /\ pgDraws = <<>> /\ pgReq = <<>> /\ pgFailed = FALSE /\ pgOut = <<>>
    /\ pgSeen = <<>>
    /\ NormIdle /\ HotIdle /\ RunIdle /\ ExtIdle /\ DateIdle

\* the page number in the requested URL: base_url as it is when it already
\* holds "?page=" (taken to name page 1), else page
RequestedPage == IF pgIn.hasPage THEN 1 ELSE pgPage

\* variant of the cutoff test that also stops on the cutoff day itself
ReachedCutoffInclusive(oldest, cutoff) == oldest # 0 /\ oldest <= cutoff

\* oldest_on_page and oldest_on_page < cutoff
ReachedCutoff(oldest, cutoff) == oldest # 0 /\ oldest < cutoff

\* variant of the failure exit that returns nothing
NothingOnFailure(ds) == <<>>

\* what is returned after the break of the except clause
ReturnedOnFailure(ds) == PageResult(ds)

\* the request of a page fails: the loop breaks, the draws so far are returned
FetchFails ==
    /\ pgPc = "loop"
    /\ pgReq' = Append(pgReq, RequestedPage)
    /\ pgFailed' = TRUE
    /\ pgOut' = ReturnedOnFailure(pgDraws)
    /\ pgPc' = "done"
    /\ UNCHANGED <<pgIn, pgPage, pgLast, pgDraws, pgSeen, exceptPage>>

\* one iteration of the paging loop on a page that is served and parsed
FetchPage ==
    /\ pgPc = "loop"
    /\ \E blocks \in (IF pgPage <= MaxContentPages
                      THEN SeqsUpTo(BlockPool, MaxBlocks) ELSE {<<>>}),
          lastPage \in {0, pgIn.siteLast} :
          LET page_draws == parse_page(blocks)
              last == IF lastPage # 0 THEN lastPage ELSE pgLast
              all == pgDraws \o page_draws
              oldest == OldestOrdinal(page_draws)
              cutoff == Ordinal(now) - pgIn.days_back
              stop == \/ ReachedCutoff(oldest, cutoff)
                      \/ (last # 0 /\ pgPage + 1 > last)
                      \/ pgPage + 1 > PageCap
          IN  /\ pgReq' = Append(pgReq, RequestedPage)
              /\ pgSeen' = blocks
              /\ pgLast' = last
              /\ pgDraws' = all
              /\ pgPage' = IF ReachedCutoff(oldest, cutoff) THEN pgPage ELSE pgPage + 1
              /\ pgPc' = IF stop THEN "done" ELSE "loop"
              /\ pgOut' = IF stop THEN PageResult(all) ELSE pgOut
    /\ UNCHANGED <<pgIn, pgFailed, exceptPage>>

PageNext == FetchFails \/ FetchPage

PageSpec == PageInit /\ [][PageNext]_vars

\* C7: the list the paginated extractor returns never holds two records with
\* the same (date, main, bonus), and it is ordered newest first.
PaginatedDedupedSorted ==
    pgPc = "done" =>
        /\ \A i, j \in 1..Len(pgOut) : pgOut[i] = pgOut[j] => i = j
        /\ \A i, j \in 1..Len(pgOut) :
              i < j => Ordinal(fromisoformat(pgOut[i].date))
                         >= Ordinal(fromisoformat(pgOut[j].date))

\* the same draw was collected more than once, an older draw was collected
\* before a newer one, and the list was returned
PaginatedDedupedSortedWitness ==
    /\ pgPc = "done"
    /\ Len(pgOut) >= 2 /\ Len(pgDraws) > Len(pgOut)
    /\ \E i, j \in 1..Len(pgDraws) :
          i < j /\ StrLess(pgDraws[i].date, pgDraws[j].date)

\* ------------------------------------------------------------------------
\* scrape_html
\* ------------------------------------------------------------------------
\* A returned Draw is built together with the date parsed from the fragment
\* it came from (NoDate when the fragment's date was not recognised).
Tagged(date_obj, parsed, mains, bonus, page_id) ==
    [draw |-> NormalizedDraw(date_obj, ListOf(Wrap(mains)), ListOf(Wrap(bonus)), page_id),
     from |-> parsed]

DrawsIn(tagged) == [i \in 1..Len(tagged) |-> tagged[i].draw]
ParsedIn(tagged) == [i \in 1..Len(tagged) |-> tagged[i].from]

MainCount(page_id) == IF page_id \in DOMAIN GAME_SPECS THEN GAME_SPECS[page_id].main ELSE 5
BonusCount(page_id) == IF page_id \in DOMAIN GAME_SPECS THEN GAME_SPECS[page_id].bonus ELSE 0

\* extract_numbers_from_span(text), text given by its digit runs
extract_numbers_from_span(runs) == FindDigits(runs, 2)

\* extract_numbers_from_text(text, date_obj)
extract_numbers_from_text(runs, date_obj) ==
    LET NotYear(n) == date_obj = NoDate \/ n # date_obj[1]
        Plausible(n) == 1 <= n /\ n <= 999
    IN  FilterSeq(FilterSeq(FindWholeNumbers(runs, 3), NotYear), Plausible)

\* stage 1: the ul.list_table_presentation entries; an entry is
\* [nspans, date_txt, mainRuns, bonusRuns]
RECURSIVE PrimaryStage(_, _)
PrimaryStage(entries, page_id) ==
    IF entries = <<>> THEN <<>>
    ELSE LET e == Head(entries)
             date_obj == try_parse_date_any(e.date_txt)
             mains == extract_numbers_from_span(e.mainRuns)
             bonuses == IF e.nspans >= 4 THEN extract_numbers_from_span(e.bonusRuns)
                        ELSE <<>>
         IN  IF e.nspans < 3 \/ date_obj = NoDate THEN PrimaryStage(Tail(entries), page_id)
             ELSE <<Tagged(date_obj, date_obj, mains, bonuses, page_id)>>
                  \o PrimaryStage(Tail(entries), page_id)

\* the date the alternate-selector stage stores when none was parsed
SubstituteDate(date_obj, today) == IF date_obj # NoDate THEN date_obj ELSE today

\* stage 2: the nodes of one alternate selector; a node is
\* [txt, attrRuns, runs]: its date-shaped text, the digit runs of its
\* attribute values, the digit runs of its visible text
RECURSIVE AltStage(_, _, _)
AltStage(nodes, page_id, today) ==
    IF nodes = <<>> THEN <<>>
    ELSE LET n == Head(nodes)
             m == RegexPiece(n.txt, AllSeps, TRUE)
             date_obj == IF m # NoText THEN try_parse_date_any(m) ELSE NoDate
             fromAttrs == FindWholeNumbers(n.attrRuns, 3)
             nums1 == IF fromAttrs = <<>> THEN extract_numbers_from_text(n.runs, date_obj)
                      ELSE fromAttrs
             NotYear(x) == date_obj = NoDate \/ x # date_obj[1]
             nums == FilterSeq(nums1, NotYear)
             mains == Slice(nums, 0, MainCount(page_id))
             bonus == Slice(nums, MainCount(page_id),
                            MainCount(page_id) + BonusCount(page_id))
         IN  IF nums = <<>> THEN AltStage(Tail(nodes), page_id, today)
             ELSE <<Tagged(SubstituteDate(date_obj, today), date_obj, mains, bonus, page_id)>>
                  \o AltStage(Tail(nodes), page_id, today)

\* stage 3: every li/tr/div/article/section; a candidate is
\* [txt, viaLabel, runs]: its date-shaped text, whether that text follows a
\* "draw date" label, the digit runs of its text
RECURSIVE GenericStage(_, _)
GenericStage(cands, page_id) ==
    IF cands = <<>> THEN <<>>
    ELSE LET c == Head(cands)
             m == RegexPiece(c.txt, {"/", "-"}, TRUE)
             date_match == IF m # NoText THEN m
                           ELSE IF c.viaLabel /\ c.txt.sep # "-" THEN c.txt
                           ELSE NoText
             date_obj == IF date_match # NoText THEN try_parse_date_any(date_match)
                         ELSE NoDate
             Small(x) == x < 1000
             nums == FilterSeq(extract_numbers_from_text(c.runs, date_obj), Small)
             mains == Slice(nums, 0, MainCount(page_id))
             bonus == Slice(nums, MainCount(page_id),
                            MainCount(page_id) + BonusCount(page_id))
         IN  IF Len(FindDigits(c.runs, 2)) < 3 \/ date_obj = NoDate
             THEN GenericStage(Tail(cands), page_id)
             ELSE <<Tagged(date_obj, date_obj, mains, bonus, page_id)>>
                  \o GenericStage(Tail(cands), page_id)

NumAltSelectors == 9

\* what a results page may hold
NumText(f1, f2, f3, sep, emb) ==
    [form |-> "num", f1 |-> f1, f2 |-> f2, f3 |-> f3, sep |-> sep, emb |-> emb]

EntryPool ==
    { [nspans |-> 4, date_txt |-> DateTextOf("dby", 14, 3, 2024),
       mainRuns |-> <<5, 70, 70, 12>>, bonusRuns |-> <<3, 27>>],
      [nspans |-> 3, date_txt |-> NumText(14, 3, 2024, "/", FALSE),
       mainRuns |-> <<100, 7>>, bonusRuns |-> <<9>>],
      [nspans |-> 4, date_txt |-> NumText(14, 3, 2024, ".", FALSE),
       mainRuns |-> <<5, 12>>, bonusRuns |-> <<3>>],
      [nspans |-> 2, date_txt |-> DateTextOf("dby", 14, 3, 2024),
       mainRuns |-> <<>>, bonusRuns |-> <<>>] }

NodePool ==
    { [txt |-> DateTextOf("dby", 14, 3, 2024), attrRuns |-> <<>>,
       runs |-> <<14, 2024, 5, 12, 70, 70, 3, 8, 50>>],
      [txt |-> NoText, attrRuns |-> <<7, 70, 70, 1234>>, runs |-> <<>>],
      [txt |-> NumText(14, 3, 2024, ".", TRUE), attrRuns |-> <<>>,
       runs |-> <<14, 3, 2024, 1, 2, 3, 4, 5, 6>>],
      [txt |-> NoText, attrRuns |-> <<>>, runs |-> <<>>] }

CandPool ==
    { [txt |-> DateTextOf("dby", 14, 3, 2024), viaLabel |-> FALSE,
       runs |-> <<14, 2024, 5, 12, 70, 70, 3, 8, 50>>],
      [txt |-> NumText(3, 4, 2024, "/", TRUE), viaLabel |-> TRUE,
       runs |-> <<3, 4, 2024, 70, 70, 5>>],
      [txt |-> NumText(14, 3, 2024, ".", TRUE), viaLabel |-> TRUE,
       runs |-> <<14, 3, 2024, 1, 2, 3>>],
      [txt |-> DateTextOf("dby", 14, 3, 2024), viaLabel |-> FALSE,
       runs |-> <<14, 2024>>] }

ExtGames == {"powerball", "spain_loterias", "lotto", "south_africa_lotto"}

\* scrape_html, stage 1
ScrapePrimary ==
    /\ exPc = "primary"
    /\ \E entries \in SeqsUpTo(EntryPool, MaxNodes) :
          LET got == PrimaryStage(entries, exIn.page_id)
          IN  /\ exSeen' = entries
              /\ exDraws' = DrawsIn(got)
              /\ exFrom' = ParsedIn(got)
              /\ exPc' = IF got # <<>> THEN "done" ELSE "alt"
              /\ exSel' = IF got # <<>> THEN exSel ELSE 1
    /\ UNCHANGED <<exIn, exceptExt>>

\* scrape_html, stage 2: the nodes of the next alternate selector
ScrapeAlt ==
    /\ exPc = "alt"
    /\ \E nodes \in SeqsUpTo(NodePool, MaxNodes) :
          LET got == AltStage(nodes, exIn.page_id, now)
          IN  /\ exSeen' = nodes
              /\ exDraws' = DrawsIn(got)
              /\ exFrom' = ParsedIn(got)
              /\ exPc' = IF got # <<>> THEN "done"
                         ELSE IF exSel = NumAltSelectors THEN "generic" ELSE "alt"
              /\ exSel' = IF got = <<>> /\ exSel < NumAltSelectors
                          THEN exSel + 1 ELSE exSel
    /\ UNCHANGED <<exIn, exceptExt>>

\* scrape_html, stage 3
ScrapeGeneric ==
    /\ exPc = "generic"
    /\ \E cands \in SeqsUpTo(CandPool, MaxNodes) :
          LET got == GenericStage(cands, exIn.page_id)
          IN  /\ exSeen' = cands
              /\ exDraws' = DrawsIn(got)
              /\ exFrom' = ParsedIn(got)
    /\ exPc' = "done"
    /\ UNCHANGED <<exIn, exSel, exceptExt>>

\* ------------------------------------------------------------------------
\* parse_csv_text
\* ------------------------------------------------------------------------
\* A delimited text is its header (the kinds of its column names, <<>> when
\* the first line is already data) and its data rows.  A row is its
\* non-empty cells; a cell is its date-shaped text (NoText when it has
\* none), the digit runs it holds, and its word (lower case, no blank,
\* hyphen or underscore; "" when it is not a word).
Cell(t, runs, word) == [t |-> t, runs |-> runs, word |-> word]
EmptyCell == Cell(NoText, <<>>, "")
W(word) == Cell(NoText, <<>>, word)
N(n) == Cell(NoText, <<n>>, "")
D(t) == Cell(t, IF t.form = "num" THEN <<t.f1, t.f2, t.f3>>
                ELSE IF t.form = "dby" THEN <<t.f1, t.f3>> ELSE <<t.f2, t.f3>>, "")

\* an enforced and normalised record with the date parsed for it
Enforced(date_obj, mains, bonus, page_id) ==
    LET r == _enforce_ranges(Wrap(mains), Wrap(bonus), page_id)
    IN  [draw |-> NormalizedDraw(date_obj, ListOf(r.main), ListOf(r.bonus), page_id),
         from |-> date_obj]

\* str.isdigit() of a cell
isdigit(c) == c.t.form = "none" /\ c.word = "" /\ Len(c.runs) = 1

\* ball_re.findall over cells: the whole numbers of one or two digits
BallsOf(cells) ==
    Flatten([i \in 1..Len(cells) |-> FindWholeNumbers(cells[i].runs, 2)])

\* index of the first element satisfying P, 0 when there is none
FirstWhere(s, P(_)) ==
    LET I == {i \in 1..Len(s) : P(s[i])}
    IN  IF I = {} THEN 0 ELSE CHOOSE i \in I : \A j \in I : i <= j

\* row.get(column): a missing cell reads as ""
CellAt(row, i) == IF i >= 1 /\ i <= Len(row) THEN row[i] ELSE EmptyCell

\* the piece (\d{1,2}[/.-]\d{1,2}[/.-]\d{2,4}) finds in the joined row
JoinedPiece(row) ==
    LET Has(c) == FragmentMatches(c.t, AllSeps)
        i == FirstWhere(row, Has)
    IN  IF i = 0 THEN NoText ELSE Fragment(row[i].t)

\* explicit "Winning Number N" / "Powerball" columns
RECURSIVE ExplicitColumns(_, _, _)
ExplicitColumns(header, rows, page_id) ==
    IF rows = <<>> THEN <<>>
    ELSE LET row == Head(rows)
             IsDate(tag) == tag \in {"date", "fecha", "draw", "drawno"}
             IsPb(tag) == tag = "pb"
             dcol == FirstWhere(header, IsDate)
             date_obj == try_parse_date_any(CellAt(row, dcol).t)
             win == [i \in 1..Len(header) |->
                       IF header[i] = "win"
                       THEN Slice(BallsOf(<<CellAt(row, i)>>), 0, 1) ELSE <<>>]
             mains == Flatten(win)
             pcol == FirstWhere(header, IsPb)
             bonus == Slice(BallsOf(<<CellAt(row, pcol)>>), 0, 1)
         IN  IF date_obj = NoDate THEN ExplicitColumns(header, Tail(rows), page_id)
             ELSE <<Enforced(date_obj, mains, bonus, page_id)>>
                  \o ExplicitColumns(header, Tail(rows), page_id)

LongDigits == 100000

\* row-oriented: first cell the date, the rest numbers
RECURSIVE RowOriented(_, _)
RowOriented(rows, page_id) ==
    IF rows = <<>> THEN <<>>
    ELSE LET row == Head(rows)
             d1 == try_parse_date_any(CellAt(row, 1).t)
             m == JoinedPiece(row)
             date_obj == IF d1 # NoDate THEN d1
                         ELSE IF m # NoText THEN try_parse_date_any(m) ELSE NoDate
             tail0 == Tail(row)
             tail == IF tail0 # <<>> /\ isdigit(tail0[Len(tail0)])
                        /\ tail0[Len(tail0)].runs[1] >= LongDigits
                     THEN SubSeq(tail0, 1, Len(tail0) - 1) ELSE tail0
             nums == BallsOf(tail)
         IN  IF row = <<>> \/ date_obj = NoDate THEN RowOriented(Tail(rows), page_id)
             ELSE <<Enforced(date_obj, Slice(nums, 0, 6), Slice(nums, 6, 8), page_id)>>
                  \o RowOriented(Tail(rows), page_id)

PlausibleMDY(a, b, c) == 1900 <= c /\ c <= 2100 /\ 1 <= a /\ a <= 12 /\ 1 <= b /\ b <= 31
PlausibleDMY(a, b, c) == 1900 <= c /\ c <= 2100 /\ 1 <= b /\ b <= 12 /\ 1 <= a /\ a <= 31

\* date_idx: the first three consecutive digit tokens that look like a date
DateIdx(tokens) ==
    LET I == {i \in 1..(Len(tokens) - 2) :
                /\ isdigit(tokens[i]) /\ isdigit(tokens[i + 1]) /\ isdigit(tokens[i + 2])
                /\ \/ PlausibleMDY(tokens[i].runs[1], tokens[i + 1].runs[1],
                                   tokens[i + 2].runs[1])
                   \/ PlausibleDMY(tokens[i].runs[1], tokens[i + 1].runs[1],
                                   tokens[i + 2].runs[1])}
    IN  IF I = {} THEN 0 ELSE CHOOSE i \in I : \A j \in I : i <= j

\* variant of the date of the tokens that tries the day-first reading first
TokenDateDayFirst(tokens, i) ==
    LET a == tokens[i].runs[1]
        b == tokens[i + 1].runs[1]
        c == tokens[i + 2].runs[1]
        ymd == IF PlausibleDMY(a, b, c) THEN <<c, b, a>> ELSE <<c, a, b>>
    IN  IF ValidDate(ymd[1], ymd[2], ymd[3]) THEN ymd ELSE NoDate

\* datetime(year, month, day).date() of the tokens at date_idx
TokenDate(tokens, i) ==
    LET a == tokens[i].runs[1]
        b == tokens[i + 1].runs[1]
        c == tokens[i + 2].runs[1]
        ymd == IF PlausibleMDY(a, b, c) THEN <<c, a, b>> ELSE <<c, b, a>>
    IN  IF ValidDate(ymd[1], ymd[2], ymd[3]) THEN ymd ELSE NoDate

\* game: the tokens before the date, joined, blanks removed
RECURSIVE GameOf(_)
GameOf(tokens) ==
    IF tokens = <<>> THEN ""
    ELSE (IF Head(tokens).word # "" THEN Head(tokens).word ELSE "0")
         \o GameOf(Tail(tokens))

StartsWith(str, k) == Len(str) >= Len(k) /\ SubSeq(str, 1, Len(k)) = k

\* the first key of GAME_SPECS that game starts with, NoneId when none
SpecFor(game) ==
    LET Fits(k) == StartsWith(game, k)
        i == FirstWhere(GAME_SPECS_KEYS, Fits)
    IN  IF i = 0 THEN NoneId ELSE GAME_SPECS_KEYS[i]

\* a row with a date_idx
Headerless(tokens, i, page_id) ==
    LET date_obj == TokenDate(tokens, i)
        numbers == BallsOf(SubSeq(tokens, i + 3, Len(tokens)))
        spec == SpecFor(GameOf(SubSeq(tokens, 1, i - 1)))
        main_count == IF spec # NoneId THEN GAME_SPECS[spec].main
                      ELSE IF Len(numbers) = 8 THEN 7 ELSE 5
    IN  IF date_obj = NoDate THEN <<>>
        ELSE <<Enforced(date_obj, Slice(numbers, 0, main_count),
                        Slice(numbers, main_count, Len(numbers)), page_id)>>

\* the readings of the last-resort formats, in the order of the code:
\* "%m/%d/%Y", "%Y-%m-%d", "%d/%m/%Y", "%d-%m-%Y"
LastResortFormats(g) ==
    IF g.sep = "/" THEN << <<g.f3, g.f1, g.f2>>, <<g.f3, g.f2, g.f1>> >>
    ELSE IF g.sep = "-" THEN << <<g.f1, g.f2, g.f3>>, <<g.f3, g.f2, g.f1>> >>
    ELSE <<>>

\* a row without a date_idx
LastResort(tokens, page_id) ==
    LET m == JoinedPiece(tokens)
        d1 == IF m # NoText THEN FirstOk(LastResortFormats(m)) ELSE NoDate
        p == [i \in 1..3 |-> IF isdigit(CellAt(tokens, i))
                              THEN CellAt(tokens, i).runs[1] ELSE -1]
        d2 == IF Len(tokens) >= 3 /\ \A i \in 1..3 : isdigit(tokens[i])
              THEN IF ValidDate(p[3], p[1], p[2]) THEN <<p[3], p[1], p[2]>>
                   ELSE IF ValidDate(p[1], p[2], p[3]) THEN <<p[1], p[2], p[3]>>
                   ELSE NoDate
              ELSE NoDate
        date_obj == IF d1 # NoDate THEN d1 ELSE d2
        nums == BallsOf(tokens)
        numbers == LastN(nums, 8)
    IN  IF date_obj = NoDate \/ Len(nums) < 6 THEN <<>>
        ELSE <<Enforced(date_obj, Slice(numbers, 0, 5),
                        Slice(numbers, 5, Len(numbers)), page_id)>>

\* headerless / tokenized fallback over every row
RECURSIVE Tokenized(_, _)
Tokenized(rows, page_id) ==
    IF rows = <<>> THEN <<>>
    ELSE LET tokens == Head(rows)
             i == DateIdx(tokens)
         IN  (IF tokens = <<>> THEN <<>>
              ELSE IF i # 0 THEN Headerless(tokens, i, page_id)
              ELSE LastResort(tokens, page_id))
             \o Tokenized(Tail(rows), page_id)

\* a cell holding \d{1,2}\.\d{1,2}\.\d{4}
Dotted(c) ==
    /\ c.t.form = "num" /\ c.t.sep = "."
    /\ NumDigits(c.t.f2) <= 2 /\ NumDigits(c.t.f3) >= 4

\* final dd.mm.YYYY fallback
RECURSIVE DottedFallback(_, _)
DottedFallback(rows, page_id) ==
    IF rows = <<>> THEN <<>>
    ELSE LET parts == Head(rows)
             i == FirstWhere(parts, Dotted)
             date_obj == IF i = 0 THEN NoDate
                         ELSE try_parse_date_any(Fragment(parts[i].t))
             digits == FilterSeq(parts, isdigit)
             nums == [j \in 1..Len(digits) |-> digits[j].runs[1]]
         IN  IF Len(parts) < 8 \/ date_obj = NoDate
             THEN DottedFallback(Tail(rows), page_id)
             ELSE <<Enforced(date_obj, Slice(nums, 0, 6), Slice(nums, 6, 7), page_id)>>
                  \o DottedFallback(Tail(rows), page_id)

\* the header line as the row the later readers see: its column names
HeaderRow(header) ==
    [i \in 1..Len(header) |->
        IF header[i] = "win" THEN Cell(NoText, <<i>>, "winningnumber")
        ELSE W(header[i])]

\* parse_csv_text(csv_text, page_id).  The data rows hold no empty cell and
\* none of the words "fecha", "combin", "powerball", so the first line of a
\* text without header is never taken for the header of a sheet.
parse_csv_text(header, rows, page_id) ==
    LET lines == IF header = <<>> THEN rows ELSE <<HeaderRow(header)>> \o rows
        explicit == IF \E i \in 1..Len(header) : header[i] \in {"win", "pb"}
                    THEN ExplicitColumns(header, rows, page_id) ELSE <<>>
        byRow == IF \E i \in 1..Len(header) : header[i] \in {"fecha", "combin"}
                 THEN RowOriented(rows, page_id) ELSE <<>>
        tokenized == Tokenized(lines, page_id)
    IN  IF explicit # <<>> THEN explicit
        ELSE IF byRow # <<>> THEN byRow
        ELSE IF tokenized # <<>> THEN tokenized
        ELSE IF lines # <<>> /\ FirstWhere(lines[1], Dotted) # 0
        THEN DottedFallback(lines, page_id)
        ELSE <<>>

HeaderPool ==
    { <<>>,
      <<"date", "win", "win", "win", "pb">>,
      <<"fecha", "combin">>,
      <<"drawno", "other">> }

Mar14 == NumText(14, 3, 2024, "/", FALSE)

RowPool ==
    { <<D(Mar14), N(1), N(2), N(3), N(4), N(5), N(6), N(7)>>,
      <<D(Mar14), N(70), N(70), N(12), N(30)>>,
      <<W("mega"), W("millions"), N(3), N(14), N(2024),
        N(5), N(12), N(23), N(44), N(55), N(9)>>,
      <<N(3), N(14), N(2024), N(70), N(70), N(5), N(80), N(80), N(6), N(7), N(8)>>,
      <<D(NumText(14, 3, 2024, ".", FALSE)),
        N(1), N(2), N(3), N(4), N(5), N(6), N(7)>>,
      <<D(DateTextOf("dby", 14, 3, 2024)), N(5), N(12), N(23), N(44), N(50),
        N(60), N(7), N(9), N(123456)>>,
      <<W("draw"), N(5), N(6)>>,
      <<N(3), N(14), N(2024), N(70), N(71), N(72)>>,
      <<W("powerball"), N(3), N(4), N(2024),
        N(5), N(12), N(23), N(44), N(55), N(9), N(10)>>,
      <<N(2024), N(3), N(14), N(1), N(2), N(3), N(4)>> }

\* parse_csv_text on one text
ParseCsv ==
    /\ exPc = "csv"
    /\ \E header \in HeaderPool, rows \in SeqsUpTo(RowPool, MaxRows) :
          LET got == parse_csv_text(header, rows, exIn.page_id)
          IN  /\ exSeen' = [header |-> header, rows |-> rows]
              /\ exDraws' = DrawsIn(got)
              /\ exFrom' = ParsedIn(got)
    /\ exPc' = "done"
    /\ UNCHANGED <<exIn, exSel, exceptExt>>

ExtractInit ==
    /\ now = Today
    /\ exIn \in [page_id : ExtGames, kind : {"html", "csv"}]
    /\ exPc = IF exIn.kind = "html" THEN "primary" ELSE "csv"
    /\ exSel = 0 /\ exSeen = <<>> /\ exDraws = <<>> /\ exFrom = <<>>
    /\ NormIdle /\ HotIdle /\ RunIdle /\ PageIdle /\ DateIdle

ExtractNext == ScrapePrimary \/ ScrapeAlt \/ ScrapeGeneric \/ ParseCsv

ExtractSpec == ExtractInit /\ [][ExtractNext]_vars

\* C1: every Draw an extractor returns for a game with an entry in
\* GAME_RANGES has every main in 1..main_max and every bonus in 1..bonus_max
RangeInvariant ==
    (exPc = "done" /\ HasRange(exIn.page_id)) =>
        \A i \in 1..Len(exDraws) :
            /\ \A j \in 1..Len(exDraws[i].main) :
                  /\ exDraws[i].main[j] >= 1
                  /\ exDraws[i].main[j] <= GAME_RANGES[exIn.page_id].main_max
            /\ \A j \in 1..Len(exDraws[i].bonus) :
                  /\ exDraws[i].bonus[j] >= 1
                  /\ exDraws[i].bonus[j] <= GAME_RANGES[exIn.page_id].bonus_max

\* a page entry with the balls 5 70 70 12 comes back for powerball without
\* the two 70s
RangeInvariantWitness ==
    /\ exPc = "done" /\ exIn.kind = "html" /\ exIn.page_id = "powerball"
    /\ exSel = 0 /\ Len(exSeen) >= 1
    /\ exSeen[1].mainRuns = <<5, 70, 70, 12>>
    /\ Len(exDraws) >= 1 /\ exDraws[1].main = <<5, 12>>

\* C2: every returned Draw carries the date parsed from its own fragment (a
\* fragment whose date is not recognised gives no Draw)
DateFromOwnFragment ==
    exPc = "done" =>
        \A i \in 1..Len(exDraws) :
            /\ exFrom[i] # NoDate
            /\ exDraws[i].date = isoformat(exFrom[i])

\* the numbers of the cells after the first, taken as they stand
NumbersAfterDate(row) == [i \in 1..(Len(row) - 1) |-> row[i + 1].runs[1]]

\* a row made of a D/M/Y date cell followed by number cells
DateThenNumbersRow(row) ==
    /\ Len(row) >= 2
    /\ row[1].t.form = "num" /\ row[1].t.sep = "/"
    /\ StrpOK(row[1].t.f3, row[1].t.f2, row[1].t.f1)
    /\ \A i \in 2..Len(row) : isdigit(row[i])

\* C11: a line made of a D/M/Y date cell and number cells, for a game whose
\* rule is 6 main and 1 bonus, gives one Draw with that date, the first 6
\* numbers after the date as main and the 7th as bonus
DateThenNumbers ==
    ( /\ exPc = "done" /\ exIn.kind = "csv"
      /\ GAME_SPECS[exIn.page_id] = [main |-> 6, bonus |-> 1]
      /\ exSeen.header = <<>> /\ Len(exSeen.rows) = 1
      /\ DateThenNumbersRow(exSeen.rows[1]) )
    => LET row == exSeen.rows[1]
           nums == NumbersAfterDate(row)
       IN  exDraws = << [date  |-> isoformat(<<row[1].t.f3, row[1].t.f2, row[1].t.f1>>),
                         main  |-> Slice(nums, 0, 6),
                         bonus |-> Slice(nums, 6, 7)] >>

\* the number of word tokens a row starts with
RECURSIVE LabelLen(_)
LabelLen(row) ==
    IF row = <<>> \/ Head(row).word = "" THEN 0 ELSE 1 + LabelLen(Tail(row))

\* every value is a ball that the rule of page_id lets through
WithinRule(page_id, mains, bonus) ==
    /\ \A i \in 1..Len(mains) : mains[i] >= 1
    /\ \A i \in 1..Len(bonus) : bonus[i] >= 1
    /\ HasRange(page_id) =>
          /\ \A i \in 1..Len(mains) : mains[i] <= GAME_RANGES[page_id].main_max
          /\ \A i \in 1..Len(bonus) : bonus[i] <= GAME_RANGES[page_id].bonus_max

LengthByRule ==
    (exPc = "done" /\ exIn.page_id \in DOMAIN GAME_SPECS) =>
        \A i \in 1..Len(exDraws) :
            /\ Len(exDraws[i].main) <= GAME_SPECS[exIn.page_id].main
            /\ Len(exDraws[i].bonus) <= GAME_SPECS[exIn.page_id].bonus

\* C14: no Draw list an extractor returns holds a record whose main is empty
NoEmptyMain ==
    exPc = "done" => \A i \in 1..Len(exDraws) : exDraws[i].main # <<>>

\* C15: the paginated extractor issues at most 50 requests, and the pages
\* it requests are 1, 2, 3, ... in order, none twice
PagingCapAndOrder ==
    /\ Len(pgReq) <= PageCap
    /\ \A i \in 1..Len(pgReq) : pgReq[i] = i

\* the draws parsed from the page fetched by a step
PageDrawsOfStep == SubSeq(pgDraws', Len(pgDraws) + 1, Len(pgDraws'))

\* C16: no page is requested after a page whose oldest date is strictly
\* older than the cutoff, nor after the page whose number is the last-page
\* number reported by the site; a page whose oldest date is the cutoff day
\* does not stop the paging
PagingStops ==
    [][ /\ (pgPc = "done") => (pgReq' = pgReq)
        /\ (pgPc = "loop" /\ ~pgFailed') =>
             LET oldest == OldestOrdinal(PageDrawsOfStep)
                 cutoff == Ordinal(now) - pgIn.days_back
             IN  /\ (oldest # 0 /\ oldest < cutoff) => pgPc' = "done"
                 /\ (pgLast' # 0 /\ pgPage = pgLast') => pgPc' = "done"
                 /\ ( /\ oldest = cutoff
                      /\ (pgLast' = 0 \/ pgPage < pgLast')
                      /\ pgPage < PageCap ) => pgPc' = "loop" ]_vars

\* page 1 held a draw of the cutoff day and paging went on; page 2 held an
\* older draw and paging stopped there
PagingStopsWitness ==
    /\ pgPc = "done" /\ ~pgFailed /\ Len(pgReq) = 2 /\ pgPage = 2
    /\ Len(pgDraws) = 2
    /\ Ordinal(fromisoformat(pgDraws[1].date)) = Ordinal(now) - pgIn.days_back
    /\ Ordinal(fromisoformat(pgDraws[2].date)) < Ordinal(now) - pgIn.days_back

\* C17: when the fetch or parse of page k fails the extractor requests no
\* further page and returns the draws of pages 1..k-1, deduplicated and
\* newest first (nothing when k = 1)
BestEffortPaging ==
    /\ [](pgFailed =>
            /\ pgPc = "done"
            /\ Range(pgOut) = Range(pgDraws)
            /\ \A i, j \in 1..Len(pgOut) : pgOut[i] = pgOut[j] => i = j
            /\ \A i, j \in 1..Len(pgOut) :
                  i < j => ~StrLess(pgOut[i].date, pgOut[j].date)
            /\ (Len(pgReq) = 1 => pgOut = <<>>))
    /\ [][ /\ (pgFailed' /\ ~pgFailed) => pgDraws' = pgDraws
           /\ pgFailed => pgReq' = pgReq ]_vars

\* the third request failed after two pages with draws
BestEffortPagingWitness ==
    /\ pgFailed /\ pgPc = "done" /\ Len(pgReq) = 3
    /\ Len(pgOut) >= 2 /\ Len(pgDraws) > Len(pgOut)

\* ------------------------------------------------------------------------
\* try_parse_date_any on one text
\* ------------------------------------------------------------------------
DateTexts ==
    [form : {"num"}, f1 : 1..MaxField, f2 : 1..MaxField, f3 : {24, 2024},
     sep : AllSeps, emb : BOOLEAN]
    \cup [form : {"dby", "bdy"}, f1 : {3, MaxField}, f2 : {3, MaxField},
          f3 : {2024}, sep : {"/"}, emb : BOOLEAN]

DateInit ==
    /\ now = Today
    /\ dtIn \in DateTexts
    /\ dtPc = "start" /\ dtOut = NoDate
    /\ NormIdle /\ HotIdle /\ RunIdle /\ PageIdle /\ ExtIdle

ParseDate ==
    /\ dtPc = "start"
    /\ dtOut' = try_parse_date_any(dtIn)
    /\ dtPc' = "done"
    /\ UNCHANGED <<dtIn, exceptDate>>

DateNext == ParseDate

DateSpec == DateInit /\ [][DateNext]_vars

\* C18: a numeric text A/B/Y with A and B both in 1..12 is read month
\* first (month A, day B), as the whole input or inside a longer string
MonthFirstPolicy ==
    ( /\ dtPc = "done" /\ dtIn.form = "num" /\ dtIn.sep = "/"
      /\ dtIn.f1 \in 1..12 /\ dtIn.f2 \in 1..12 /\ dtIn.f3 = 2024 )
    => dtOut = <<dtIn.f3, dtIn.f1, dtIn.f2>>

\* ------------------------------------------------------------------------
\* The compute_hot call of run_and_save on a source's Draw list
\* ------------------------------------------------------------------------
CallPool ==
    { [date |-> isoformat(Today), main |-> <<3, 50>>, bonus |-> <<10>>],
      [date |-> isoformat(Today), main |-> <<70, 1>>, bonus |-> <<2>>],
      [date |-> isoformat(Today), main |-> <<36, 71>>, bonus |-> <<27>>],
      [date |-> isoformat(DateAgo(DAYS_BACK + 1)), main |-> <<3, 9>>, bonus |-> <<1>>],
      [date |-> isoformat(Today), main |-> <<1, 2, 3, 4, 5, 6, 7, 8, 9, 10, 11>>,
       bonus |-> <<7, 7>>] }

CallInit ==
    /\ now = Today
    /\ hotIn \in [key : Range(LOTTERIES_KEYS), draws : SeqsUpTo(CallPool, MaxDraws)]
    /\ hotPc = "start"
    /\ hotRecent = <<>> /\ hotTop = <<>> /\ hotTopPerm = <<>>
    /\ NormIdle /\ RunIdle /\ PageIdle /\ ExtIdle /\ DateIdle

\* recent = filter_recent(draws, DAYS_BACK); compute_hot(recent, ..., page_id=key)
CallComputeHot ==
    /\ hotPc = "start"
    /\ hotRecent' = filter_recent(hotIn.draws, DAYS_BACK, now)
    /\ hotTop' = ReportOf(hotIn.key, hotIn.draws)
    /\ hotPc' = "counted"
    /\ UNCHANGED <<hotIn, hotTopPerm, exceptHot>>

CallNext == CallComputeHot

CallSpec == CallInit /\ [][CallNext]_vars

\* C19: for a source whose page_id has an entry in GAME_RANGES the run's
\* compute_hot call leaves no main above main_max and no bonus above
\* bonus_max in top_main and top_bonus, whatever the Draw list holds
CounterRevalidates ==
    ( /\ hotPc = "counted" /\ "key" \in DOMAIN hotIn
      /\ HasRange(LOTTERIES[hotIn.key].page_id) )
    => LET rule == GAME_RANGES[LOTTERIES[hotIn.key].page_id]
       IN  /\ \A i \in 1..Len(hotTop.top_main) :
                 /\ hotTop.top_main[i].number >= 1
                 /\ hotTop.top_main[i].number <= rule.main_max
           /\ \A i \in 1..Len(hotTop.top_bonus) :
                 /\ hotTop.top_bonus[i].number >= 1
                 /\ hotTop.top_bonus[i].number <= rule.bonus_max

\* the block with the digit run of its recognised year taken out of its text
WithoutYear(b) ==
    LET NotYear(n) == n # BlockDate(b)[1]
    IN  [b EXCEPT !.runs = FilterSeq(b.runs, NotYear)]

\* C20: in the free-text fallback of parse_page no main value comes from
\* the digits of the recognised year: the record of a block is the one the
\* block gives with the year taken out of its text
YearDenoised ==
    \A i \in 1..Len(pgSeen) :
        (~pgSeen[i].ul /\ BlockDate(pgSeen[i]) # NoDate)
        => parse_page(<<pgSeen[i]>>) = parse_page(<<WithoutYear(pgSeen[i])>>)

\* the number of main values in a Draw list
RECURSIVE MainValues(_)
MainValues(ds) == IF ds = <<>> THEN 0 ELSE Len(Head(ds).main) + MainValues(Tail(ds))

\* a top list: at most n items, no number twice, counts >= 1 and non-increasing
WellFormedTop(top, n) ==
    /\ Len(top) <= n
    /\ \A i, j \in 1..Len(top) : top[i].number = top[j].number => i = j
    /\ \A i \in 1..Len(top) : top[i].count >= 1
    /\ \A i, j \in 1..Len(top) : i < j => top[i].count >= top[j].count

\* C21: every report has 0 <= draws_recent <= draws_total, top lists of at
\* most top_main_n / top_bonus_n items in which no number comes twice, every
\* count is at least 1 and the counts do not increase down the list, and no
\* count of top_main above the number of main values in the recent draws
ReportWellFormed ==
    (hotPc = "counted" /\ "key" \in DOMAIN hotIn) =>
        /\ 0 <= hotTop.draws_recent
        /\ hotTop.draws_recent <= hotTop.draws_total
        /\ hotTop.draws_total = Len(hotIn.draws)
        /\ WellFormedTop(hotTop.top_main, TopN(hotIn.key, "top_main"))
        /\ WellFormedTop(hotTop.top_bonus, TopN(hotIn.key, "top_bonus"))
        /\ \A i \in 1..Len(hotTop.top_main) :
              hotTop.top_main[i].count <= MainValues(hotRecent)

\* one of two draws is recent, it holds eleven different mains of which ten
\* are reported, and its bonus 7 is counted twice
ReportWellFormedWitness ==
    /\ hotPc = "counted" /\ "key" \in DOMAIN hotIn
    /\ hotTop.draws_total = 2 /\ hotTop.draws_recent = 1
    /\ MainValues(hotRecent) = 11 /\ Len(hotTop.top_main) = 10
    /\ hotTop.top_bonus = <<[number |-> 7, count |-> 2]>>

====
